---- MODULE Spec2Model ----
(***************************************************************************)
(* A model of the amark tokenizer: the line cursor buffer (src/src/buf.rs), *)
(* the context stack and the pushdown automaton parse_next_inner            *)
(* (src/src/lib.rs).  Bytes are integers 0..255; a byte slice is a sequence *)
(* of bytes.  One action, ParseNext, is one call of                         *)
(* AmarkReader::parse_next_get_cur_line on the same line-buffered source.   *)
(***************************************************************************)
EXTENDS Integers, Sequences, FiniteSets, TLC

(***************************************************************************)
(* Bytes the code names.                                                    *)
(***************************************************************************)
TAB == 9
NL == 10
FF == 12
CR == 13
SP == 32
LPAREN == 40
RPAREN == 41
SEMI == 59
AT == 64
LBRACK == 91
BSLASH == 92
RBRACK == 93
LBRACE == 123
RBRACE == 125
\* a byte with no special meaning anywhere (b'a'), used for names and text
LetterA == 97

\* "no byte" (Option::None of next_byte) and "no position" (None of a searcher)
NoByte == 0 - 1
NoPos == 0 - 1
\* a reader that never fails
NoFail == 0 - 1

(***************************************************************************)
(* Bounds of the model.                                                     *)
(***************************************************************************)
\* longest freely chosen part of a document
MaxLen == 3
\* longest byte vector handed to with_buf
MaxBuf == 2
\* how many calls are made after the first End
MaxEnds == 2
\* most reads a failing reader answers before the read that fails
MaxReads == 2
\* most lines pulled before a run of buffer operations stops pulling
MaxPulls == 3
\* largest count handed to rewind
MaxRewind == 2
\* deepest stack built by a run of stack operations
MaxDepth == 3

\* u8
Byte == 0..255

(***************************************************************************)
(* u8::is_ascii_whitespace, is_ascii_context_char, is_ascii_ident_char      *)
(***************************************************************************)
is_ascii_whitespace(b) == b \in {SP, TAB, NL, FF, CR}

is_ascii_context_char(b) == b \in {LBRACE, RBRACE, LPAREN, RPAREN, LBRACK, RBRACK}

is_ascii_ident_char(b) ==
    ~is_ascii_whitespace(b) /\ ~is_ascii_context_char(b) /\ b # SEMI

(***************************************************************************)
(* Context and ContextStack                                                 *)
(***************************************************************************)
Context == {"Block", "Params", "Container", "TopLevel", "ItemName", "EscapeSequence"}

ContextExpected(ctx) ==
    CASE ctx = "Block" -> "End of Block: }"
      [] ctx = "Params" -> "End of Parameter List: )"
      [] ctx = "Container" -> "End of Container: ]"
      [] ctx = "TopLevel" -> "Any valid Token"
      [] ctx = "ItemName" -> "An element start indicator: (, [ or {"
      \* the source text shows the backslash byte where BSLASH stands
      [] ctx = "EscapeSequence" -> "Escape Sequence after BSLASH"

\* Context::Block.expected() as the bytes the closing-brace arm stores in got
BlockExpectedBytes ==
    <<69, 110, 100, SP, 111, 102, SP, 66, 108, 111, 99, 107, 58, SP, RBRACE>>

StackNew == <<>>

\* a slip: the context is put under the stack
StackPush_PutsUnder(stack, ctx) == <<ctx>> \o stack

StackPush(stack, ctx) == Append(stack, ctx)

StackPop(stack) == IF stack = <<>> THEN <<>> ELSE SubSeq(stack, 1, Len(stack) - 1)

StackLast(stack) == IF stack = <<>> THEN "TopLevel" ELSE stack[Len(stack)]

\* what pop returns: self.stack.pop().unwrap_or(Context::TopLevel)
StackPopped(stack) == IF stack = <<>> THEN "TopLevel" ELSE stack[Len(stack)]

(***************************************************************************)
(* Tokens and errors: one record shape for every result of a call.          *)
(***************************************************************************)
Tok(kind, payload) ==
    [kind |-> kind, payload |-> payload, expected |-> "", got |-> <<>>]

Err(kind, expected, got) ==
    [kind |-> kind, payload |-> <<>>, expected |-> expected, got |-> got]

TokenKinds ==
    {"BlockStart", "ParamsStart", "ContainerStart", "BlockEnd", "ParamsEnd",
     "ContainerEnd", "ItemEnd", "EmptyLine", "End", "ItemName", "Text",
     "EscapeSequence"}

ErrorKinds == {"IoError", "UnexpectedInput", "UnexpectedEol", "UnexpectedEof"}

\* a slip: ItemEnd is taken for the end of a context as well
is_context_end_ItemEndToo(tok) ==
    tok.kind \in {"ParamsEnd", "BlockEnd", "ContainerEnd", "ItemEnd"}

\* AmarkToken::is_context_end
is_context_end(tok) == tok.kind \in {"ParamsEnd", "BlockEnd", "ContainerEnd"}

(***************************************************************************)
(* Buf.  An engine value e is the record                                    *)
(*   [storage, processed, stack, cur_line, rest, failIn, failed]:           *)
(* the buffers two fields, the context stack, the line counter, and the    *)
(* reader (the bytes it has not handed out yet, after how many more reads   *)
(* it fails, and whether a read of it has failed).                          *)
(***************************************************************************)
storage_empty(e) == e.storage = <<>>

next_byte(e) ==
    IF e.processed < Len(e.storage)
    THEN [b |-> e.storage[e.processed + 1], e |-> [e EXCEPT !.processed = @ + 1]]
    ELSE [b |-> NoByte, e |-> e]

\* a slip: a plain subtraction in place of saturating_sub
rewind_Underflows(e, n) == [e EXCEPT !.processed = @ - n]

rewind(e, n) == [e EXCEPT !.processed = IF @ >= n THEN @ - n ELSE 0]

\* a searcher closure: the position (0-based) of the first byte of s that is in
\* hits, or NoPos
FindFirst(s, hits) ==
    IF \E i \in 1..Len(s) : s[i] \in hits
    THEN (CHOOSE i \in 1..Len(s) : s[i] \in hits /\ \A j \in 1..(i - 1) : s[j] \notin hits) - 1
    ELSE NoPos

\* BufRead::read_until(b'\n'): the number of bytes it appends, which are the
\* bytes up to and including the next newline, or everything that is left
read_until(rest) ==
    LET pos == FindFirst(rest, {NL})
    IN  IF pos = NoPos THEN Len(rest) ELSE pos + 1

\* a slip: a pull that finds the source exhausted does not count
fill_with_line_NoCountAtEof(e) ==
    IF e.failIn = 0
    THEN [ok |-> FALSE,
          e |-> [e EXCEPT !.storage = <<>>, !.processed = 0, !.cur_line = @ + 1,
                          !.failed = TRUE]]
    ELSE [ok |-> TRUE,
          e |-> [e EXCEPT !.storage = SubSeq(e.rest, 1, read_until(e.rest)),
                          !.processed = 0,
                          !.cur_line = IF e.rest = <<>> THEN @ ELSE @ + 1,
                          !.rest = SubSeq(@, read_until(@) + 1, Len(@)),
                          !.failIn = IF @ > 0 THEN @ - 1 ELSE @]]

fill_with_line(e) ==
    IF e.failIn = 0
    THEN [ok |-> FALSE,
          e |-> [e EXCEPT !.storage = <<>>, !.processed = 0, !.cur_line = @ + 1,
                          !.failed = TRUE]]
    ELSE [ok |-> TRUE,
          e |-> [e EXCEPT !.storage = SubSeq(e.rest, 1, read_until(e.rest)),
                          !.processed = 0,
                          !.cur_line = @ + 1,
                          !.rest = SubSeq(@, read_until(@) + 1, Len(@)),
                          !.failIn = IF @ > 0 THEN @ - 1 ELSE @]]

\* hits: the bytes the searcher stops at
take_until_inner(e, hits) ==
    IF e.processed > Len(e.storage)
    THEN [some |-> FALSE, slice |-> <<>>, byte |-> NoByte, e |-> e]
    ELSE LET buf == SubSeq(e.storage, e.processed + 1, Len(e.storage))
             pos == FindFirst(buf, hits)
         IN  IF pos # NoPos
             THEN [some |-> TRUE, slice |-> SubSeq(buf, 1, pos), byte |-> buf[pos + 1],
                   e |-> [e EXCEPT !.processed = @ + pos + 1]]
             ELSE [some |-> FALSE, slice |-> <<>>, byte |-> NoByte,
                   e |-> [e EXCEPT !.processed = Len(buf)]]

\* given_back: the bytes for which the rewind closure returns 1 (0 for the others)
\* the match of take_until_rewind on what take_until_inner returned
rewind_found(t, given_back) ==
    IF t.some
    THEN [t EXCEPT !.e = rewind(@, IF t.byte \in given_back THEN 1 ELSE 0)]
    ELSE t

take_until_rewind(e, hits, given_back) ==
    rewind_found(take_until_inner(e, hits), given_back)

\* search_forward with the one pattern the engine passes: |b| !b.is_ascii_whitespace()
RECURSIVE search_forward(_)
RECURSIVE search_forward_filled(_)
RECURSIVE search_forward_filled_IgnoresError(_)
\* a slip: the error of a failed read is dropped and the search ends unmatched
\* the None arm: fill_with_line(..)? and the loop goes on
search_forward_filled_IgnoresError(f) ==
    IF f.ok THEN search_forward(f.e)
    ELSE [ok |-> TRUE, found |-> FALSE, e |-> f.e]

search_forward_filled(f) ==
    IF f.ok THEN search_forward(f.e)
    ELSE [ok |-> FALSE, found |-> FALSE, e |-> f.e]

search_forward(e) ==
    IF storage_empty(e)
    THEN [ok |-> TRUE, found |-> FALSE, e |-> e]
    ELSE LET nb == next_byte(e)
         IN  IF nb.b # NoByte
             THEN IF ~is_ascii_whitespace(nb.b)
                  THEN [ok |-> TRUE, found |-> TRUE, e |-> nb.e]
                  ELSE search_forward(nb.e)
             ELSE search_forward_filled(fill_with_line(e))

(***************************************************************************)
(* The helpers of AmarkReaderInner.  A step of the dispatch loop is the     *)
(* record [done, e, res]: done says that the call returns res.              *)
(***************************************************************************)
Return(e, res) == [done |-> TRUE, e |-> e, res |-> res]

Continue(e) == [done |-> FALSE, e |-> e, res |-> Tok("None", <<>>)]

IoError == Err("IoError", "", <<>>)

\* a slip: the bracket opens a Block
parse_ascii_context_char_BracketAsBlock(b) ==
    CASE b = LBRACK -> [tok |-> Tok("ContainerStart", <<>>), ctx |-> "Block"]
      [] b = LBRACE -> [tok |-> Tok("BlockStart", <<>>), ctx |-> "Block"]
      [] b = LPAREN -> [tok |-> Tok("ParamsStart", <<>>), ctx |-> "Params"]

parse_ascii_context_char(b) ==
    CASE b = LBRACK -> [tok |-> Tok("ContainerStart", <<>>), ctx |-> "Container"]
      [] b = LBRACE -> [tok |-> Tok("BlockStart", <<>>), ctx |-> "Block"]
      [] b = LPAREN -> [tok |-> Tok("ParamsStart", <<>>), ctx |-> "Params"]

\* while let Some(b) = next_byte() { if !b.is_ascii_whitespace() { rewind(1); break } }
RECURSIVE skip_whitespace(_)
skip_whitespace(e) ==
    LET nb == next_byte(e)
    IN  IF nb.b = NoByte THEN e
        ELSE IF ~is_ascii_whitespace(nb.b) THEN rewind(nb.e, 1)
        ELSE skip_whitespace(nb.e)

\* loop { if next_byte().map_or(true, |b| b.is_ascii_whitespace()) { break } }
RECURSIVE skip_after_block_end(_)
skip_after_block_end(e) ==
    LET nb == next_byte(e)
    IN  IF nb.b = NoByte \/ is_ascii_whitespace(nb.b) THEN nb.e
        ELSE skip_after_block_end(nb.e)

\* a slip: the newline that ends the text is given back as well
try_read_text_RewindsNewline(e, end_char) ==
    take_until_rewind(e, {NL, end_char, BSLASH}, {NL, end_char, BSLASH})

\* a slip: the searcher does not stop at a backslash
try_read_text_PassesBackslash(e, end_char) ==
    take_until_rewind(e, {NL, end_char}, {end_char, BSLASH})

try_read_text(e, end_char) ==
    take_until_rewind(e, {NL, end_char, BSLASH}, {end_char, BSLASH})

\* the closures of read_item_name: the bytes its searcher stops at, and the
\* bytes its rewind closure gives back
NameSearcherHits == {b \in Byte : ~is_ascii_ident_char(b)}

NameGivenBack == {b \in Byte : is_ascii_context_char(b) \/ b = SEMI}

\* .ok_or_else(..)? and Ok(name.0) on what take_until_rewind returned
name_or_eof(t) ==
    IF t.some
    THEN [ok |-> TRUE, name |-> t.slice, e |-> t.e, err |-> Tok("None", <<>>)]
    ELSE [ok |-> FALSE, name |-> <<>>, e |-> t.e,
          err |-> Err("UnexpectedEof", "Any other symbol after item name", <<>>)]

\* a slip: the byte that ends the name is never given back
read_item_name_KeepsTerminator(e) ==
    name_or_eof(take_until_rewind(e, NameSearcherHits, {}))

read_item_name(e) ==
    name_or_eof(take_until_rewind(e, NameSearcherHits, NameGivenBack))

\* a slip: ItemName is pushed before the scan is known to have succeeded
item_name_token_PushesFirst(r) ==
    IF r.ok
    THEN Return([r.e EXCEPT !.stack = StackPush(@, "ItemName")], Tok("ItemName", r.name))
    ELSE Return([r.e EXCEPT !.stack = StackPush(@, "ItemName")], r.err)

\* let name = read_item_name(..)?; push(ItemName); return Ok(ItemName(name))
item_name_token(r) ==
    IF r.ok
    THEN Return([r.e EXCEPT !.stack = StackPush(@, "ItemName")], Tok("ItemName", r.name))
    ELSE Return(r.e, r.err)

\* a slip: a line that ends inside a text run is reported as UnexpectedEol
text_or_eof_ReportsEol(t, expected) ==
    IF t.some
    THEN Return(t.e, Tok("Text", t.slice))
    ELSE Return(t.e, Err("UnexpectedEol", expected, <<>>))

\* try_read_text(..).map(Text).ok_or(UnexpectedEof { expected })
text_or_eof(t, expected) ==
    IF t.some
    THEN Return(t.e, Tok("Text", t.slice))
    ELSE Return(t.e, Err("UnexpectedEof", expected, <<>>))

parse_escape_sequence(e) ==
    LET pushed == [e EXCEPT !.stack = StackPush(@, "EscapeSequence")]
        nb == next_byte(pushed)
    IN  IF nb.b # NoByte
        THEN Return(nb.e, Tok("EscapeSequence", <<nb.b>>))
        ELSE Return(nb.e, Err("UnexpectedEof", ContextExpected("EscapeSequence"), <<>>))

(***************************************************************************)
(* The arms of the match on (context, byte) in parse_next_inner; e is the   *)
(* engine after next_byte returned b.                                       *)
(***************************************************************************)
\* an opener: push ctx, skip the whitespace that follows (across lines), emit tok
\* search_forward(..)?; rewind(1); return Ok(tok)
Opened(s, tok) ==
    IF s.ok THEN Return(rewind(s.e, 1), tok) ELSE Return(s.e, IoError)

\* a slip: the whitespace after the opener is skipped in the buffered line only
OpenScope_StaysOnLine(e, tok) == Return(skip_whitespace(e), tok)

OpenScope(e, tok) == Opened(search_forward(e), tok)

\* a slip: the context of a brace is not pushed
OpenerStack_BraceNotPushed(stack, b) ==
    LET popped == IF b # LPAREN THEN StackPop(stack) ELSE stack
    IN  IF b = LBRACE THEN popped
        ELSE StackPush(popped, parse_ascii_context_char(b).ctx)

\* a slip: ItemName is popped for the parenthesis too
OpenerStack_PopsForParen(stack, b) ==
    StackPush(StackPop(stack), parse_ascii_context_char(b).ctx)

\* a slip: ItemName is left under the context of the opener
OpenerStack_KeepsItemName(stack, b) ==
    StackPush(stack, parse_ascii_context_char(b).ctx)

\* the stack after an opener met in ItemName context
OpenerStack(stack, b) ==
    LET popped == IF b # LPAREN THEN StackPop(stack) ELSE stack
    IN  StackPush(popped, parse_ascii_context_char(b).ctx)

\* a slip: the failing arm pops ItemName
DispatchItemName_PopsOnError(e, b) ==
    IF b \in {LBRACK, LPAREN, LBRACE}
    THEN OpenScope([e EXCEPT !.stack = OpenerStack(@, b)],
                   parse_ascii_context_char(b).tok)
    ELSE IF b = SEMI
    THEN Return(skip_whitespace([e EXCEPT !.stack = StackPop(@)]), Tok("ItemEnd", <<>>))
    ELSE IF is_ascii_whitespace(b)
    THEN Continue(e)
    ELSE Return([e EXCEPT !.stack = StackPop(@)],
                Err("UnexpectedInput", "Start or End of item token {, (, [ or ;", <<b>>))

\* a slip: the semicolon leaves ItemName on the stack
DispatchItemName_SemiKeepsItemName(e, b) ==
    IF b \in {LBRACK, LPAREN, LBRACE}
    THEN OpenScope([e EXCEPT !.stack = OpenerStack(@, b)],
                   parse_ascii_context_char(b).tok)
    ELSE IF b = SEMI
    THEN Return(skip_whitespace(e), Tok("ItemEnd", <<>>))
    ELSE IF is_ascii_whitespace(b)
    THEN Continue(e)
    ELSE Return(e, Err("UnexpectedInput", "Start or End of item token {, (, [ or ;", <<b>>))

DispatchItemName(e, b) ==
    IF b \in {LBRACK, LPAREN, LBRACE}
    THEN OpenScope([e EXCEPT !.stack = OpenerStack(@, b)],
                   parse_ascii_context_char(b).tok)
    ELSE IF b = SEMI
    THEN Return(skip_whitespace([e EXCEPT !.stack = StackPop(@)]), Tok("ItemEnd", <<>>))
    ELSE IF is_ascii_whitespace(b)
    THEN Continue(e)
    ELSE Return(e, Err("UnexpectedInput", "Start or End of item token {, (, [ or ;", <<b>>))

\* a slip: the closing bracket leaves the Container on the stack
DispatchContainerTopLevel_KeepsContainer(e, b, ctx) ==
    IF b = RBRACK
    THEN IF ctx = "Container"
         THEN Return(e, Tok("ContainerEnd", <<>>))
         ELSE Return(e, Err("UnexpectedInput", "Item or EOF", <<RBRACK>>))
    ELSE IF b = RBRACE
    THEN Return(e, Err("UnexpectedInput", ContextExpected("Container"), BlockExpectedBytes))
    ELSE IF is_ascii_ident_char(b)
    THEN item_name_token(read_item_name(rewind(e, 1)))
    ELSE Continue(e)

DispatchContainerTopLevel(e, b, ctx) ==
    IF b = RBRACK
    THEN IF ctx = "Container"
         THEN Return([e EXCEPT !.stack = StackPop(@)], Tok("ContainerEnd", <<>>))
         ELSE Return(e, Err("UnexpectedInput", "Item or EOF", <<RBRACK>>))
    ELSE IF b = RBRACE
    THEN Return(e, Err("UnexpectedInput", ContextExpected("Container"), BlockExpectedBytes))
    ELSE IF is_ascii_ident_char(b)
    THEN item_name_token(read_item_name(rewind(e, 1)))
    ELSE Continue(e)

\* a slip: the newline of an empty line is given back
DispatchBlock_GivesNewlineBack(e, b) ==
    IF b = NL
    THEN Return(rewind(e, 1), Tok("EmptyLine", <<>>))
    ELSE IF b = BSLASH
    THEN parse_escape_sequence(e)
    ELSE IF b = AT
    THEN item_name_token(read_item_name(e))
    ELSE IF b = RBRACE
    THEN Return(skip_after_block_end([e EXCEPT !.stack = StackPop(@)]),
                Tok("BlockEnd", <<>>))
    ELSE IF is_ascii_whitespace(b)
    THEN Continue(e)
    ELSE text_or_eof(try_read_text(rewind(e, 1), RBRACE),
                     "End of line indicator for text line or end of item indicator }")

DispatchBlock(e, b) ==
    IF b = NL
    THEN Return(e, Tok("EmptyLine", <<>>))
    ELSE IF b = BSLASH
    THEN parse_escape_sequence(e)
    ELSE IF b = AT
    THEN item_name_token(read_item_name(e))
    ELSE IF b = RBRACE
    THEN Return(skip_after_block_end([e EXCEPT !.stack = StackPop(@)]),
                Tok("BlockEnd", <<>>))
    ELSE IF is_ascii_whitespace(b)
    THEN Continue(e)
    ELSE text_or_eof(try_read_text(rewind(e, 1), RBRACE),
                     "End of line indicator for text line or end of item indicator }")

\* a slip: the byte is not given back before the loop goes on
DispatchEscapeSequence_NoRewind(e, b) ==
    IF b = LPAREN
    THEN OpenScope([e EXCEPT !.stack = StackPush(@, "Params")], Tok("ParamsStart", <<>>))
    ELSE Continue([e EXCEPT !.stack = StackPop(@)])

DispatchEscapeSequence(e, b) ==
    IF b = LPAREN
    THEN OpenScope([e EXCEPT !.stack = StackPush(@, "Params")], Tok("ParamsStart", <<>>))
    ELSE Continue([rewind(e, 1) EXCEPT !.stack = StackPop(@)])

\* a slip: the entry under Params is always popped
ParamsCloseStack_PopsTwice(stack) == StackPop(StackPop(stack))

\* a slip: the EscapeSequence under Params is never popped
ParamsCloseStack_KeepsEscape(stack) == StackPop(stack)

\* the stack after a closing parenthesis met in Params context
ParamsCloseStack(stack) ==
    LET popped == StackPop(stack)
    IN  IF StackLast(popped) # "ItemName" THEN StackPop(popped) ELSE popped

DispatchParams(e, b) ==
    IF b = BSLASH
    THEN parse_escape_sequence(e)
    ELSE IF b = RPAREN
    THEN LET skipped == skip_whitespace(e)
         IN  Return([skipped EXCEPT !.stack = ParamsCloseStack(@)],
                    Tok("ParamsEnd", <<>>))
    ELSE text_or_eof(try_read_text(rewind(e, 1), RPAREN),
                     "End of line indicator for text line or end of params indicator )")

Dispatch(e, b) ==
    LET ctx == StackLast(e.stack)
    IN  CASE ctx = "ItemName" -> DispatchItemName(e, b)
          [] ctx \in {"Container", "TopLevel"} -> DispatchContainerTopLevel(e, b, ctx)
          [] ctx = "Block" -> DispatchBlock(e, b)
          [] ctx = "EscapeSequence" -> DispatchEscapeSequence(e, b)
          [] ctx = "Params" -> DispatchParams(e, b)

\* a slip: End whenever the pull returned nothing, whatever is open
AfterFill_EndInAnyContext(f) ==
    IF ~f.ok THEN Return(f.e, IoError)
    ELSE IF storage_empty(f.e) THEN Return(f.e, Tok("End", <<>>))
    ELSE Continue(f.e)

\* a slip: the arm that returns End pushes a context
AfterFill_EndPushesContainer(f) ==
    IF ~f.ok THEN Return(f.e, IoError)
    ELSE IF StackLast(f.e.stack) = "TopLevel" /\ storage_empty(f.e)
    THEN Return([f.e EXCEPT !.stack = StackPush(@, "Container")], Tok("End", <<>>))
    ELSE IF storage_empty(f.e)
    THEN Return(f.e, Err("UnexpectedEof", ContextExpected(StackLast(f.e.stack)), <<>>))
    ELSE Continue(f.e)

\* fill_with_line(..)? in the outer loop and the match after it: IoError, End,
\* UnexpectedEof, or go on; f is what fill_with_line returned
AfterFill(f) ==
    IF ~f.ok THEN Return(f.e, IoError)
    ELSE IF StackLast(f.e.stack) = "TopLevel" /\ storage_empty(f.e)
    THEN Return(f.e, Tok("End", <<>>))
    ELSE IF storage_empty(f.e)
    THEN Return(f.e, Err("UnexpectedEof", ContextExpected(StackLast(f.e.stack)), <<>>))
    ELSE Continue(f.e)

RECURSIVE parse_next_inner(_)
RECURSIVE Loop(_)
\* a step that did not return goes round the outer loop again
Loop(step) == IF step.done THEN step ELSE parse_next_inner(step.e)

parse_next_inner(e) ==
    LET nb == next_byte(e)
    IN  IF nb.b # NoByte
        THEN Loop(Dispatch(nb.e, nb.b))
        ELSE Loop(AfterFill(fill_with_line(e)))

(***************************************************************************)
(* Documents the reader is given: every byte string of at most MaxLen bytes *)
(* over Alphabet, placed in each frame of Frames.                           *)
(***************************************************************************)
Alphabet ==
    {LetterA, LBRACE, RBRACE, LPAREN, RPAREN, LBRACK, RBRACK, SEMI, BSLASH, AT, SP, NL}

RECURSIVE Strings(_)
Strings(n) ==
    IF n = 0 THEN {<<>>}
    ELSE LET shorter == Strings(n - 1)
         IN  shorter \cup {Append(s, b) : s \in {t \in shorter : Len(t) = n - 1}, b \in Alphabet}

\* the top level, an open block
Frames ==
    { <<<<>>, <<>>>>,
      <<<<LetterA, LBRACE>>, <<RBRACE>>>> }

\* other places: a parameter list, a container, a block in a block, a parameter
\* list of a sigil item, the place after an item's parameter list, a block in a
\* container, the parameter list of an escape in a block, the second line of a
\* parameter list
NestedFrames ==
    { <<<<LetterA, LPAREN>>, <<RPAREN, SEMI>>>>,
      <<<<LetterA, LBRACK>>, <<RBRACK>>>>,
      <<<<LetterA, LBRACE, AT, LetterA, LBRACE>>, <<RBRACE>>>>,
      <<<<LetterA, LBRACE, AT, LetterA, LPAREN>>, <<RPAREN, SEMI, RBRACE>>>>,
      <<<<LetterA, LPAREN, LetterA, RPAREN>>, <<>>>>,
      <<<<LetterA, LBRACK, LetterA, LBRACE>>, <<RBRACE, NL, RBRACK>>>>,
      <<<<LetterA, LBRACE, BSLASH, LetterA, LPAREN>>, <<RPAREN, RBRACE>>>>,
      <<<<LetterA, LPAREN, LetterA, NL>>, <<>>>> }

Documents ==
    {f[1] \o s \o f[2] : f \in Frames, s \in Strings(MaxLen)}
        \cup {f[1] \o s \o f[2] : f \in NestedFrames, s \in Strings(MaxLen - 1)}

(***************************************************************************)
(* State                                                                    *)
(***************************************************************************)
VARIABLES
    storage,        \* Buf::storage
    processed,      \* Buf::processed
    context_stack,  \* ContextStack::stack
    cur_line,       \* AmarkReader::cur_line
    reader,         \* the reader: [rest, failIn, failed]
    input,          \* the document the reader was opened on
    calls           \* what each call returned, and the engine it left:
                    \* [res, line, stack, consumed, empty]

vars == <<storage, processed, context_stack, cur_line, reader, input, calls>>

Engine ==
    [storage |-> storage, processed |-> processed, stack |-> context_stack,
     cur_line |-> cur_line, rest |-> reader.rest, failIn |-> reader.failIn,
     failed |-> reader.failed]

\* bytes of the document the engine has moved past
Consumed(e) == Len(input) - Len(e.rest) - (Len(e.storage) - e.processed)

\* Buf::with_storage
with_storage(v) == [storage |-> v, processed |-> 0]

\* AmarkReader::with_buf(v), beside a reader opened on doc
with_buf(v, doc) ==
    LET buf == with_storage(v)
    IN  [storage |-> buf.storage, processed |-> buf.processed, stack |-> StackNew,
         cur_line |-> 0, rest |-> doc, failIn |-> NoFail, failed |-> FALSE]

\* AmarkReader::new(): Default, which is with_buf(Vec::new())
new(doc) == with_buf(<<>>, doc)

Starts(e) ==
    /\ storage = e.storage
    /\ processed = e.processed
    /\ context_stack = e.stack
    /\ cur_line = e.cur_line
    /\ reader = [rest |-> e.rest, failIn |-> e.failIn, failed |-> e.failed]
    /\ calls = <<>>

\* AmarkReader::new() on a reader over a document
Init ==
    /\ input \in Documents
    /\ Starts(new(input))

Kinds == [i \in 1..Len(calls) |-> calls[i].res.kind]

Failed == \E i \in 1..Len(calls) : calls[i].res.kind \in ErrorKinds

Ends == Cardinality({i \in 1..Len(calls) : calls[i].res.kind = "End"})

\* parse_next_get_cur_line: the caller stops at the first error, and may go on
\* calling after End
ParseNext ==
    /\ ~Failed
    /\ Ends <= MaxEnds
    /\ \E r \in {parse_next_inner(Engine)} :
           /\ storage' = r.e.storage
           /\ processed' = r.e.processed
           /\ context_stack' = r.e.stack
           /\ cur_line' = r.e.cur_line
           /\ reader' = [rest |-> r.e.rest, failIn |-> r.e.failIn, failed |-> r.e.failed]
           /\ calls' = Append(calls, [res |-> r.res, line |-> r.e.cur_line,
                                      stack |-> r.e.stack, consumed |-> Consumed(r.e),
                                      empty |-> storage_empty(r.e)])
    /\ UNCHANGED input

Next == ParseNext

Spec == Init /\ [][Next]_vars

\* AmarkReader::with_buf(v) for a byte vector v (a fresh one, or one that
\* take_buf returned from an earlier engine) on a reader over a document
BufDocuments == {f[1] \o f[2] : f \in Frames \cup NestedFrames}

InitBuf ==
    /\ input \in BufDocuments
    /\ \E v \in Strings(MaxBuf) : Starts(with_buf(v, input))

SpecBuf == InitBuf /\ [][Next]_vars

\* AmarkReader::new() on a reader whose read number k + 1 fails (k in
\* 0..MaxReads), or never fails
IoDocuments == {f[1] \o s \o f[2] : f \in Frames \cup NestedFrames, s \in Strings(MaxLen - 1)}

InitIo ==
    /\ input \in IoDocuments
    /\ \E k \in (0..MaxReads) \cup {NoFail} : Starts([new(input) EXCEPT !.failIn = k])

SpecIo == InitIo /\ [][Next]_vars

(***************************************************************************)
(* The glossary grammar, as a recogniser that does not use the engine.      *)
(*   Doc       ::= ws (Item ws)*                                            *)
(*   Item      ::= Name ws Body                                             *)
(*   Body      ::= ";" | Block | Container | Params ws (";" | Block | Container) *)
(*   Block     ::= "{" (text | "@" Item | Escape)* "}"                      *)
(*   Container ::= "[" ws (Item ws)* "]"                                    *)
(*   Params    ::= "(" (text | Escape)* ")"                                 *)
(*   Escape    ::= "\" byte [Params]                                        *)
(* Each operator takes the document d and a position i (1-based) and gives  *)
(* the position after the construct, or 0 when d has no such construct at i.*)
(* "@" is the sigil where a run of text could begin, and text inside it;    *)
(* text holds no opener of its own scope ("{" in a block, "(" in params).   *)
(***************************************************************************)
RECURSIVE GSkipWs(_, _)
GSkipWs(d, i) ==
    IF i <= Len(d) /\ is_ascii_whitespace(d[i]) THEN GSkipWs(d, i + 1) ELSE i

RECURSIVE GNameEnd(_, _)
GNameEnd(d, i) ==
    IF i <= Len(d) /\ is_ascii_ident_char(d[i]) THEN GNameEnd(d, i + 1) ELSE i

RECURSIVE GItem(_, _), GBody(_, _), GBlock(_, _, _), GContainer(_, _), GParams(_, _)

\* i is at the first byte of the name
GItem(d, i) ==
    LET j == GNameEnd(d, i)
    IN  IF j = i THEN 0 ELSE GBody(d, GSkipWs(d, j))

\* the scope (or ";") that closes an item whose parameter list, if any, is read
GCloser(d, k) ==
    IF k > Len(d) THEN 0
    ELSE IF d[k] = SEMI THEN k + 1
    ELSE IF d[k] = LBRACE THEN GBlock(d, k + 1, FALSE)
    ELSE IF d[k] = LBRACK THEN GContainer(d, k + 1)
    ELSE 0

GBody(d, k) ==
    IF k <= Len(d) /\ d[k] = LPAREN
    THEN LET p == GParams(d, k + 1)
         IN  IF p = 0 THEN 0 ELSE GCloser(d, GSkipWs(d, p))
    ELSE GCloser(d, k)

\* i is after the "{"; inText: a run of text has begun on this line
GBlock(d, i, inText) ==
    IF i > Len(d) THEN 0
    ELSE IF d[i] = RBRACE THEN i + 1
    ELSE IF d[i] = BSLASH
    THEN IF i + 1 > Len(d) THEN 0
         ELSE IF i + 2 <= Len(d) /\ d[i + 2] = LPAREN
         THEN LET p == GParams(d, i + 3)
              IN  IF p = 0 THEN 0 ELSE GBlock(d, p, FALSE)
         ELSE GBlock(d, i + 2, FALSE)
    ELSE IF d[i] = NL THEN GBlock(d, i + 1, FALSE)
    ELSE IF d[i] = LBRACE THEN 0
    ELSE IF d[i] = AT /\ ~inText
    THEN LET j == GItem(d, i + 1)
         IN  IF j = 0 THEN 0 ELSE GBlock(d, j, FALSE)
    ELSE GBlock(d, i + 1, inText \/ ~is_ascii_whitespace(d[i]))

\* i is after the "["
GContainer(d, i) ==
    LET k == GSkipWs(d, i)
    IN  IF k > Len(d) THEN 0
        ELSE IF d[k] = RBRACK THEN k + 1
        ELSE LET j == GItem(d, k)
             IN  IF j = 0 THEN 0 ELSE GContainer(d, j)

\* i is after the "("
GParams(d, i) ==
    IF i > Len(d) THEN 0
    ELSE IF d[i] = RPAREN THEN i + 1
    ELSE IF d[i] = BSLASH
    THEN IF i + 1 > Len(d) THEN 0
         ELSE IF i + 2 <= Len(d) /\ d[i + 2] = LPAREN
         THEN LET p == GParams(d, i + 3)
              IN  IF p = 0 THEN 0 ELSE GParams(d, p)
         ELSE GParams(d, i + 2)
    ELSE IF d[i] = LPAREN THEN 0
    ELSE GParams(d, i + 1)

RECURSIVE GDoc(_, _)
GDoc(d, i) ==
    LET k == GSkipWs(d, i)
    IN  IF k > Len(d) THEN TRUE
        ELSE LET j == GItem(d, k)
             IN  IF j = 0 THEN FALSE ELSE GDoc(d, j)

WellFormed(d) == GDoc(d, 1)

(***************************************************************************)
(* Reading the record of calls.                                             *)
(***************************************************************************)
NCalls == Len(calls)

Kind(i) == calls[i].res.kind

\* the context stack and the count of consumed bytes when call i began
StackBefore(i) == IF i = 1 THEN StackNew ELSE calls[i - 1].stack

ConsumedBefore(i) == IF i = 1 THEN 0 ELSE calls[i - 1].consumed

CountKind(k) == Cardinality({i \in 1..NCalls : Kind(i) = k})

\* the stack with an EscapeSequence entry on top dropped
StripEscape(stack) ==
    IF StackLast(stack) = "EscapeSequence" THEN StackPop(stack) ELSE stack

\* position of the first byte at or after i that ends a run of text closed by
\* end_char (Len + 1 when there is none)
RECURSIVE TextEnd(_, _, _)
TextEnd(d, i, end_char) ==
    IF i > Len(d) \/ d[i] \in {NL, end_char, BSLASH} THEN i
    ELSE TextEnd(d, i + 1, end_char)

(***************************************************************************)
(* C1: every well-formed document is tokenized without an error, its stream *)
(* reaches End, and End is followed by nothing but End.                     *)
(***************************************************************************)
C1_WellFormedEndsWithEnd ==
    WellFormed(input) =>
        /\ ~Failed
        /\ \A i, j \in 1..NCalls : (i < j /\ Kind(i) = "End") => Kind(j) = "End"
        /\ NCalls > Len(input) + 1 => Ends >= 1

(***************************************************************************)
(* C2 as written: End is returned only with an empty stack after a line     *)
(* pull that returned no bytes, and every UnexpectedEof raised while a      *)
(* context is open carries the fixed description of the context on top.     *)
(***************************************************************************)
C2_EofNamesTopContext ==
    \A i \in 1..NCalls :
        /\ Kind(i) = "End" => calls[i].stack = StackNew /\ calls[i].empty
        /\ (Kind(i) = "UnexpectedEof" /\ calls[i].stack # StackNew) =>
               calls[i].res.expected = ContextExpected(StackLast(calls[i].stack))

ScanDescriptions ==
    {"Any other symbol after item name",
     "End of line indicator for text line or end of item indicator }",
     "End of line indicator for text line or end of params indicator )",
     ContextExpected("EscapeSequence")}

(***************************************************************************)
(* C2 amended: End is returned only with an empty stack after a line pull   *)
(* that returned no bytes (the whole document consumed); a call that begins *)
(* with nothing left to read and a context open fails with UnexpectedEof    *)
(* carrying the description of the top context and leaves the stack alone;  *)
(* an UnexpectedEof raised after an empty pull always carries the top       *)
(* context description, one raised inside an unfinished last line carries   *)
(* the description of the scan that found no terminator.                    *)
(***************************************************************************)
C2_EndOnlyAtTopLevel ==
    \A i \in 1..NCalls :
        /\ Kind(i) = "End" =>
               /\ calls[i].stack = StackNew
               /\ calls[i].empty
               /\ calls[i].consumed = Len(input)
        /\ (ConsumedBefore(i) = Len(input) /\ StackBefore(i) # StackNew) =>
               /\ Kind(i) = "UnexpectedEof"
               /\ calls[i].res.expected = ContextExpected(StackLast(StackBefore(i)))
               /\ calls[i].stack = StackBefore(i)
        /\ Kind(i) = "UnexpectedEof" =>
               IF calls[i].empty
               THEN /\ calls[i].stack # StackNew
                    /\ calls[i].res.expected = ContextExpected(StackLast(calls[i].stack))
               ELSE calls[i].res.expected \in ScanDescriptions

\* a truncated document: the source ran dry with a Block open
C2_Witness ==
    /\ NCalls >= 2
    /\ Kind(NCalls) = "UnexpectedEof"
    /\ calls[NCalls].empty
    /\ StackLast(calls[NCalls].stack) = "Block"
    /\ calls[NCalls].res.expected = "End of Block: }"

(***************************************************************************)
(* C3 as written: in every finished token stream (ended by End or by an     *)
(* error) start and end tokens of each kind are equal in number.            *)
(***************************************************************************)
Balanced ==
    /\ CountKind("BlockStart") = CountKind("BlockEnd")
    /\ CountKind("ContainerStart") = CountKind("ContainerEnd")
    /\ CountKind("ParamsStart") = CountKind("ParamsEnd")

C3_BalancedAlways == (Failed \/ Ends >= 1) => Balanced

(***************************************************************************)
(* C3 amended: in every token stream that ends with End, start and end      *)
(* tokens of each kind are equal in number.                                 *)
(***************************************************************************)
C3_BalancedAtEnd == Ends >= 1 => Balanced

C3_Witness ==
    /\ Ends >= 1
    /\ CountKind("BlockStart") >= 1
    /\ CountKind("ParamsStart") >= 1

(***************************************************************************)
(* C4: every backslash the engine moves past while the innermost open scope *)
(* is a Block or a parameter list, and that is not itself the escaped byte, *)
(* is reported with the byte X after it as one EscapeSequence(X), and the   *)
(* call stops right after X, so that X is dispatched by no later call.      *)
(* (A backslash inside an item name, and one met by a failing call, are not *)
(* counted.)                                                                *)
(***************************************************************************)
\* the scope the bytes consumed by call i lie in
ScopeOf(i) ==
    IF Kind(i) = "EscapeSequence" THEN StackPop(calls[i].stack) ELSE calls[i].stack

C4_EscapePairTokenized ==
    \A i \in 1..NCalls :
        (/\ Kind(i) \in TokenKinds \ {"ItemName"}
         /\ StackLast(ScopeOf(i)) \in {"Block", "Params"}) =>
            \A k \in (ConsumedBefore(i) + 1)..calls[i].consumed :
                input[k] = BSLASH =>
                    /\ Kind(i) = "EscapeSequence"
                    /\ \/ /\ k = calls[i].consumed - 1
                          /\ calls[i].res.payload = <<input[k + 1]>>
                       \/ /\ k = calls[i].consumed
                          /\ k - 1 > ConsumedBefore(i)
                          /\ input[k - 1] = BSLASH

(***************************************************************************)
(* C5: at TopLevel or in a Container, name{text} (name a non-empty run of   *)
(* identifier bytes; text non-empty, beginning with a byte that is neither  *)
(* whitespace nor the sigil, holding no newline, closing brace or           *)
(* backslash) gives ItemName(name), BlockStart, Text(text), BlockEnd, and   *)
(* the stack after BlockEnd is the stack before the item.                   *)
(***************************************************************************)
\* the document has name{text} at position p
IsNameBlock(p) ==
    LET q == GNameEnd(input, p)
        r == TextEnd(input, q + 1, RBRACE)
    IN  /\ p <= Len(input)
        /\ q > p
        /\ q <= Len(input) /\ input[q] = LBRACE
        /\ r <= Len(input) /\ input[r] = RBRACE
        /\ r > q + 1
        /\ ~is_ascii_whitespace(input[q + 1]) /\ input[q + 1] # AT

NameAt(p) == SubSeq(input, p, GNameEnd(input, p) - 1)

BlockTextAt(p) ==
    LET q == GNameEnd(input, p)
    IN  SubSeq(input, q + 1, TextEnd(input, q + 1, RBRACE) - 1)

\* call i begins at an item position outside any block
AtItemPosition(i) == StackLast(StackBefore(i)) \in {"TopLevel", "Container"}

C5_NameBlockTokens ==
    \A i \in 1..NCalls :
        LET p == ConsumedBefore(i) + 1
        IN  (AtItemPosition(i) /\ IsNameBlock(p)) =>
                /\ calls[i].res = Tok("ItemName", NameAt(p))
                /\ i + 1 <= NCalls => calls[i + 1].res = Tok("BlockStart", <<>>)
                /\ i + 2 <= NCalls => calls[i + 2].res = Tok("Text", BlockTextAt(p))
                /\ i + 3 <= NCalls =>
                       /\ calls[i + 3].res = Tok("BlockEnd", <<>>)
                       /\ calls[i + 3].stack = StackBefore(i)

\* a name{text} item inside a container, read to its BlockEnd
C5_Witness ==
    \E i \in 1..NCalls :
        /\ StackBefore(i) = <<"Container">>
        /\ IsNameBlock(ConsumedBefore(i) + 1)
        /\ i + 3 <= NCalls
        /\ Kind(i + 3) = "BlockEnd"
        /\ Len(calls[i + 2].res.payload) >= 2

(***************************************************************************)
(* Item positions: where the byte at the cursor begins an item name.  At    *)
(* TopLevel or in a Container the name begins at the cursor; in a Block the *)
(* sigil is at the cursor and the name follows it.                          *)
(***************************************************************************)
ItemStart(i) ==
    LET c == ConsumedBefore(i) + 1
    IN  IF AtItemPosition(i) THEN c
        ELSE IF StackLast(StackBefore(i)) = "Block" /\ c <= Len(input) /\ input[c] = AT
        THEN c + 1
        ELSE 0

\* the document has name(arg); at position p
IsNameParams(p) ==
    LET q == GNameEnd(input, p)
        r == TextEnd(input, q + 1, RPAREN)
    IN  /\ p >= 1 /\ p <= Len(input)
        /\ q > p
        /\ q <= Len(input) /\ input[q] = LPAREN
        /\ r + 1 <= Len(input) /\ input[r] = RPAREN /\ input[r + 1] = SEMI
        /\ r > q + 1

ParamsTextAt(p) ==
    LET q == GNameEnd(input, p)
    IN  SubSeq(input, q + 1, TextEnd(input, q + 1, RPAREN) - 1)

NameParamsTokens(i, p) ==
    /\ calls[i].res = Tok("ItemName", NameAt(p))
    /\ i + 1 <= NCalls => calls[i + 1].res = Tok("ParamsStart", <<>>)
    /\ i + 2 <= NCalls => calls[i + 2].res = Tok("Text", ParamsTextAt(p))
    /\ i + 3 <= NCalls => calls[i + 3].res = Tok("ParamsEnd", <<>>)
    /\ i + 4 <= NCalls =>
           /\ calls[i + 4].res = Tok("ItemEnd", <<>>)
           /\ calls[i + 4].stack = StackBefore(i)

(***************************************************************************)
(* C6 as written: at an item position, name(arg); with arg non-empty and    *)
(* free of newline, closing parenthesis and backslash gives ItemName(name), *)
(* ParamsStart, Text(arg), ParamsEnd, ItemEnd, and the stack after ItemEnd  *)
(* is the stack before the item.                                            *)
(***************************************************************************)
C6_NameParamsAnyArg ==
    \A i \in 1..NCalls :
        LET p == ItemStart(i)
        IN  (p > 0 /\ IsNameParams(p)) => NameParamsTokens(i, p)

(***************************************************************************)
(* C6 amended: the same, for an arg that in addition does not begin with an *)
(* ASCII whitespace byte (the whitespace after the opening parenthesis is   *)
(* skipped before ParamsStart is returned and is no part of the Text).      *)
(***************************************************************************)
C6_NameParamsTokens ==
    \A i \in 1..NCalls :
        LET p == ItemStart(i)
        IN  (/\ p > 0
             /\ IsNameParams(p)
             /\ ~is_ascii_whitespace(input[GNameEnd(input, p) + 1])) =>
                NameParamsTokens(i, p)

\* name(arg); after the sigil in a block, read to its ItemEnd
C6_Witness ==
    \E i \in 1..NCalls :
        LET p == ItemStart(i)
        IN  /\ StackLast(StackBefore(i)) = "Block"
            /\ p > 0
            /\ IsNameParams(p)
            /\ ~is_ascii_whitespace(input[GNameEnd(input, p) + 1])
            /\ i + 4 <= NCalls
            /\ Kind(i + 4) = "ItemEnd"

(***************************************************************************)
(* C7: at an item position, a name directly followed by an opening bracket  *)
(* and then, after whitespace only (on one line or several), by a closing   *)
(* bracket gives ItemName(name), ContainerStart, ContainerEnd, and the      *)
(* stack after ContainerEnd is the stack before the item.                   *)
(***************************************************************************)
IsEmptyContainer(p) ==
    LET q == GNameEnd(input, p)
        r == GSkipWs(input, q + 1)
    IN  /\ p >= 1 /\ p <= Len(input)
        /\ q > p
        /\ q <= Len(input) /\ input[q] = LBRACK
        /\ r <= Len(input) /\ input[r] = RBRACK

C7_EmptyContainerTokens ==
    \A i \in 1..NCalls :
        LET p == ItemStart(i)
        IN  (p > 0 /\ IsEmptyContainer(p)) =>
                /\ calls[i].res = Tok("ItemName", NameAt(p))
                /\ i + 1 <= NCalls => calls[i + 1].res = Tok("ContainerStart", <<>>)
                /\ i + 2 <= NCalls =>
                       /\ calls[i + 2].res = Tok("ContainerEnd", <<>>)
                       /\ calls[i + 2].stack = StackBefore(i)
                       /\ calls[i + 2].consumed = GSkipWs(input, GNameEnd(input, p) + 1)

\* the brackets are on different lines
C7_Witness ==
    \E i \in 1..NCalls :
        LET p == ItemStart(i)
        IN  /\ p > 0
            /\ IsEmptyContainer(p)
            /\ i + 2 <= NCalls
            /\ Kind(i + 2) = "ContainerEnd"
            /\ calls[i + 2].line > calls[i].line

(***************************************************************************)
(* C8: in a Block, a line of text closed by its newline gives Text and no   *)
(* EmptyLine for that newline; when the next line holds a newline only, the *)
(* next call gives one EmptyLine for it, consuming that one byte; and an    *)
(* EmptyLine that follows the Text stands for a line of whitespace only.    *)
(***************************************************************************)
\* a run of text begins at p and is closed by a newline
IsTextLine(p) ==
    LET t == TextEnd(input, p, RBRACE)
    IN  /\ p <= Len(input)
        /\ ~is_ascii_whitespace(input[p])
        /\ input[p] \notin {AT, RBRACE, BSLASH}
        /\ t <= Len(input) /\ input[t] = NL

NextVisible(i) ==
    LET k == GSkipWs(input, ConsumedBefore(i) + 1)
    IN  IF k <= Len(input) THEN input[k] ELSE NoByte

C9_ParamsKeepItemName ==
    \A i \in 1..NCalls :
        LET before == StackBefore(i)
            after == calls[i].stack
            inner == StripEscape(before)
        IN  /\ (StackLast(before) = "ItemName" /\ Kind(i) = "ParamsStart") =>
                   after = StackPush(before, "Params")
            /\ (/\ Kind(i) = "ParamsEnd"
                /\ StackLast(StackPop(inner)) = "ItemName") =>
                   /\ after = StackPop(inner)
                   /\ StackLast(after) = "ItemName"
            /\ (i > 1 /\ Kind(i - 1) = "ParamsEnd" /\ StackLast(before) = "ItemName") =>
                   /\ NextVisible(i) = SEMI =>
                          /\ calls[i].res = Tok("ItemEnd", <<>>)
                          /\ after = StackPop(before)
                   /\ NextVisible(i) = LBRACE =>
                          /\ calls[i].res = Tok("BlockStart", <<>>)
                          /\ after = StackPush(StackPop(before), "Block")
            /\ (StackLast(before) = "ItemName" /\ Kind(i) = "BlockStart") =>
                   after = StackPush(StackPop(before), "Block")
            /\ (StackLast(before) = "ItemName" /\ Kind(i) = "ContainerStart") =>
                   after = StackPush(StackPop(before), "Container")
            /\ Kind(i) \in {"BlockEnd", "ContainerEnd"} =>
                   /\ after = StackPop(inner)
                   /\ StackLast(after) # "ItemName"

\* name(args){...} read to its BlockEnd: the stack is the one of before the item
C9_Witness ==
    \E i \in 1..NCalls :
        /\ i + 5 <= NCalls
        /\ Kind(i) = "ItemName"
        /\ Kind(i + 1) = "ParamsStart"
        /\ Kind(i + 2) = "Text"
        /\ Kind(i + 3) = "ParamsEnd"
        /\ Kind(i + 4) = "BlockStart"
        /\ Kind(i + 5) = "BlockEnd"
        /\ calls[i + 5].stack = StackBefore(i)

(***************************************************************************)
(* C10: an engine made by with_buf(v) returns, call by call, the tokens,    *)
(* errors and line numbers that an engine made by new() returns on the same *)
(* source: bytes that are in v are never tokenized.                         *)
(***************************************************************************)
\* the results and line numbers of the first n calls of engine e, to its first error
RECURSIVE RunFrom(_, _)
RECURSIVE RunOn(_, _)
\* r is what one call returned; n - 1 more calls follow unless it is an error
RunOn(r, n) ==
    <<[res |-> r.res, line |-> r.e.cur_line]>>
        \o (IF r.res.kind \in ErrorKinds THEN <<>> ELSE RunFrom(r.e, n - 1))

RunFrom(e, n) == IF n = 0 THEN <<>> ELSE RunOn(parse_next_inner(e), n)

Observed == [i \in 1..NCalls |-> [res |-> calls[i].res, line |-> calls[i].line]]

C10_WithBufSameAsNew == Observed = RunFrom(new(input), NCalls)

(***************************************************************************)
(* C11: the line counter starts at 0 and grows by exactly one with every    *)
(* line pull, the pulls that find the source exhausted included, and with   *)
(* nothing else: it is the number of lines the reader has handed out plus   *)
(* the number of pulls that found it exhausted.  Hence the counter returned *)
(* with an ItemName, a Text or an UnexpectedInput error is the 1-based      *)
(* index of the source line that holds the reported bytes.                  *)
(***************************************************************************)
\* number of newline bytes among the first n bytes of d
RECURSIVE CountNL(_, _)
CountNL(d, n) ==
    IF n = 0 THEN 0 ELSE CountNL(d, n - 1) + (IF d[n] = NL THEN 1 ELSE 0)

\* 1-based index of the line that holds byte p of the document
LineOf(p) == 1 + CountNL(input, p - 1)

\* number of lines the reader has handed out (the last may lack its newline)
LinesHanded ==
    IF Len(reader.rest) = Len(input) THEN 0
    ELSE LineOf(Len(input) - Len(reader.rest))

\* calls that ended on a pull that found the source exhausted
ExhaustedPulls == Cardinality({i \in 1..NCalls : calls[i].empty})

C11_LineCounter ==
    /\ NCalls = 0 => cur_line = 0
    /\ cur_line = LinesHanded + ExhaustedPulls
    /\ \A i \in 1..NCalls :
           /\ calls[i].line >= (IF i = 1 THEN 0 ELSE calls[i - 1].line)
           /\ Kind(i) \in {"ItemName", "Text", "UnexpectedInput"} =>
                  /\ calls[i].consumed >= 1
                  /\ calls[i].line = LineOf(calls[i].consumed)

\* a Text on the second line or later, and calls after the source ran dry
C11_Witness ==
    /\ \E i \in 1..NCalls : Kind(i) = "Text" /\ calls[i].line >= 2
    /\ ExhaustedPulls >= 2

(***************************************************************************)
(* C12: every UnexpectedInput error carries in got the one input byte found *)
(* at the cursor, which is the byte the failing call stopped on, and in     *)
(* expected the description of what the context the byte was met in         *)
(* accepts.                                                                 *)
(***************************************************************************)
\* the descriptions the UnexpectedInput arms give for a context
AcceptedBy(ctx) ==
    CASE ctx = "ItemName" -> {"Start or End of item token {, (, [ or ;"}
      [] ctx = "TopLevel" -> {"Item or EOF"}
      [] ctx = "Container" -> {ContextExpected("Container")}
      [] OTHER -> {}

C12_GotIsOffendingByte ==
    \A i \in 1..NCalls :
        Kind(i) = "UnexpectedInput" =>
            /\ calls[i].consumed >= 1
            /\ calls[i].res.got = <<input[calls[i].consumed]>>
            /\ calls[i].res.expected \in AcceptedBy(StackLast(calls[i].stack))

(***************************************************************************)
(* C13: a call returns IoError if and only if a read of the reader failed   *)
(* during that call, in the refill of the outer loop or in the whitespace   *)
(* skip of an opener; a call that begins with the whole source consumed     *)
(* returns End or UnexpectedEof unless its read fails.                      *)
(***************************************************************************)
C13_IoErrorIffReadFailed ==
    /\ reader.failed <=> (NCalls >= 1 /\ Kind(NCalls) = "IoError")
    /\ \A i \in 1..NCalls :
           /\ (Kind(i) = "IoError") => i = NCalls
           /\ (ConsumedBefore(i) = Len(input) /\ Kind(i) # "IoError") =>
                  /\ Kind(i) \in {"End", "UnexpectedEof"}
                  /\ calls[i].empty

\* the read failed in the whitespace skip that follows an opener
C13_Witness ==
    /\ NCalls >= 2
    /\ reader.failed
    /\ Kind(NCalls) = "IoError"
    /\ StackLast(StackBefore(NCalls)) = "ItemName"
    /\ StackLast(calls[NCalls].stack) \in {"Block", "Container", "Params"}

(***************************************************************************)
(* C14: no call returns UnexpectedEol: every result is a token, IoError,    *)
(* UnexpectedInput or UnexpectedEof.                                        *)
(***************************************************************************)
C14_NoUnexpectedEol ==
    \A i \in 1..NCalls :
        /\ Kind(i) # "UnexpectedEol"
        /\ Kind(i) \in TokenKinds \cup {"IoError", "UnexpectedInput", "UnexpectedEof"}

\* the last line ended inside a run of text, with no newline to end the run
C14_Witness ==
    /\ NCalls >= 1
    /\ Kind(NCalls) = "UnexpectedEof"
    /\ ~calls[NCalls].empty
    /\ calls[NCalls].res.expected \in
           {"End of line indicator for text line or end of item indicator }",
            "End of line indicator for text line or end of params indicator )"}

(***************************************************************************)
(* C15: applied to a token a call returned, is_context_end is true for      *)
(* ParamsEnd, BlockEnd and ContainerEnd, and false for BlockStart,          *)
(* ParamsStart, ContainerStart, ItemEnd, EmptyLine, End, ItemName, Text and *)
(* EscapeSequence, whatever bytes ItemName, Text and EscapeSequence carry.  *)
(***************************************************************************)
C15_ContextEndTokens ==
    \A i \in 1..NCalls :
        /\ Kind(i) \in {"ParamsEnd", "BlockEnd", "ContainerEnd"} =>
               is_context_end(calls[i].res)
        /\ Kind(i) \in {"BlockStart", "ParamsStart", "ContainerStart", "ItemEnd",
                        "EmptyLine", "End", "ItemName", "Text", "EscapeSequence"} =>
               ~is_context_end(calls[i].res)

\* a stream with an end token, an ItemEnd, and a byte-carrying token whose
\* payload is itself a closing byte
C15_Witness ==
    /\ \E i \in 1..NCalls : Kind(i) \in {"ParamsEnd", "BlockEnd", "ContainerEnd"}
    /\ \E i \in 1..NCalls : Kind(i) = "ItemEnd"
    /\ \E i \in 1..NCalls :
           /\ Kind(i) \in {"Text", "EscapeSequence"}
           /\ \E k \in 1..Len(calls[i].res.payload) :
                  calls[i].res.payload[k] \in {RBRACE, RPAREN, RBRACK}

(***************************************************************************)
(* C16: a call that returns BlockEnd pops the Block and moves past nothing  *)
(* but the closing brace and ASCII whitespace: the bytes it consumes are    *)
(* whitespace, one closing brace, whitespace, so that the first             *)
(* non-whitespace byte after the brace is left for the next call.           *)
(***************************************************************************)
\* the bytes call i moved past
ConsumedBy(i) == SubSeq(input, ConsumedBefore(i) + 1, calls[i].consumed)

C16_BlockEndSkipsOnlyWhitespace ==
    \A i \in 1..NCalls :
        Kind(i) = "BlockEnd" =>
            /\ calls[i].stack = StackPop(StripEscape(StackBefore(i)))
            /\ \E k \in 1..Len(ConsumedBy(i)) :
                   /\ ConsumedBy(i)[k] = RBRACE
                   /\ \A j \in (1..Len(ConsumedBy(i))) \ {k} :
                          is_ascii_whitespace(ConsumedBy(i)[j])

(***************************************************************************)
(* C17: a call that begins at TopLevel or in a Container moves silently     *)
(* past ASCII whitespace only: the first non-whitespace byte it consumes    *)
(* begins the ItemName it returns (or the name whose scan meets the end of  *)
(* the source), or is the closing bracket of the ContainerEnd it returns,   *)
(* or is the byte it fails on with UnexpectedInput.                         *)
(***************************************************************************)
\* index in ConsumedBy(i) of the first byte that is not whitespace (0: none)
FirstVisible(i) ==
    IF \A k \in 1..Len(ConsumedBy(i)) : is_ascii_whitespace(ConsumedBy(i)[k]) THEN 0
    ELSE CHOOSE k \in 1..Len(ConsumedBy(i)) :
             /\ ~is_ascii_whitespace(ConsumedBy(i)[k])
             /\ \A j \in 1..(k - 1) : is_ascii_whitespace(ConsumedBy(i)[j])

C17_OnlyWhitespaceSkipped ==
    \A i \in 1..NCalls :
        (/\ StackLast(StackBefore(i)) \in {"TopLevel", "Container"}
         /\ Kind(i) # "IoError"
         /\ FirstVisible(i) # 0) =>
            \E k \in {FirstVisible(i)} :
                \/ /\ Kind(i) = "ItemName"
                   /\ is_ascii_ident_char(ConsumedBy(i)[k])
                   /\ calls[i].res.payload # <<>>
                   /\ calls[i].res.payload[1] = ConsumedBy(i)[k]
                \/ /\ Kind(i) = "UnexpectedEof"
                   /\ is_ascii_ident_char(ConsumedBy(i)[k])
                   /\ calls[i].res.expected = "Any other symbol after item name"
                \/ /\ Kind(i) = "ContainerEnd"
                   /\ ConsumedBy(i)[k] = RBRACK
                   /\ k = Len(ConsumedBy(i))
                \/ /\ Kind(i) = "UnexpectedInput"
                   /\ k = Len(ConsumedBy(i))

(***************************************************************************)
(* C18: a closing bracket consumed by a call that begins at TopLevel, a     *)
(* closing brace consumed by a call that begins at TopLevel or in a         *)
(* Container, and a first non-whitespace byte other than an opener or the   *)
(* semicolon consumed by a call that begins in ItemName, each end the call  *)
(* with UnexpectedInput on that byte and leave the context stack as it was; *)
(* a closing bracket consumed by a call that begins in a Container ends it  *)
(* with ContainerEnd and the Container popped.                              *)
(***************************************************************************)
FailsInPlace(i, k) ==
    /\ Kind(i) = "UnexpectedInput"
    /\ k = Len(ConsumedBy(i))
    /\ calls[i].stack = StackBefore(i)

C18_IllegalBytesFailInPlace ==
    \A i \in 1..NCalls :
        /\ StackLast(StackBefore(i)) \in {"TopLevel", "Container"} =>
               \A k \in 1..Len(ConsumedBy(i)) :
                   /\ ConsumedBy(i)[k] = RBRACE => FailsInPlace(i, k)
                   /\ (ConsumedBy(i)[k] = RBRACK
                          /\ StackLast(StackBefore(i)) = "TopLevel") => FailsInPlace(i, k)
                   /\ (ConsumedBy(i)[k] = RBRACK
                          /\ StackLast(StackBefore(i)) = "Container") =>
                          /\ Kind(i) = "ContainerEnd"
                          /\ k = Len(ConsumedBy(i))
                          /\ calls[i].stack = StackPop(StackBefore(i))
        /\ (/\ StackLast(StackBefore(i)) = "ItemName"
            /\ FirstVisible(i) # 0
            /\ ConsumedBy(i)[FirstVisible(i)] \notin {LBRACE, LPAREN, LBRACK, SEMI}) =>
               FailsInPlace(i, FirstVisible(i))

\* a Container was closed, and then a closing bracket was met at TopLevel
C18_Witness ==
    /\ \E i \in 1..NCalls : Kind(i) = "ContainerEnd"
    /\ NCalls >= 1
    /\ Kind(NCalls) = "UnexpectedInput"
    /\ calls[NCalls].res.got = <<RBRACK>>
    /\ calls[NCalls].stack = StackNew

(***************************************************************************)
(* C19: a closing parenthesis met in Params context ends the call with      *)
(* ParamsEnd; the call consumes the parenthesis and the whitespace that     *)
(* follows it on the current line, pops Params, and pops one more entry     *)
(* exactly when the new top is not ItemName.  After the parameter list of   *)
(* an escape the top is the Block or Params that enclosed the escape, after *)
(* the parameter list of an item it is ItemName.                            *)
(***************************************************************************)
\* s is a run of whitespace in which only the last byte may be a newline
WhitespaceOfOneLine(s) ==
    \A k \in 1..Len(s) : is_ascii_whitespace(s[k]) /\ (s[k] = NL => k = Len(s))

\* the call stopped at the end of a line or before a byte that is not whitespace
StoppedAtVisible(i) ==
    \/ calls[i].consumed = Len(input)
    \/ input[calls[i].consumed] = NL
    \/ ~is_ascii_whitespace(input[calls[i].consumed + 1])

C19_ParamsEnd ==
    \A i \in 1..NCalls :
        /\ (/\ StackLast(StripEscape(StackBefore(i))) = "Params"
            /\ ConsumedBy(i) # <<>>
            /\ ConsumedBy(i)[1] = RPAREN) => Kind(i) = "ParamsEnd"
        /\ Kind(i) = "ParamsEnd" =>
               /\ StackLast(StripEscape(StackBefore(i))) = "Params"
               /\ ConsumedBy(i)[1] = RPAREN
               /\ WhitespaceOfOneLine(SubSeq(ConsumedBy(i), 2, Len(ConsumedBy(i))))
               /\ StoppedAtVisible(i)
               /\ \E under \in {StackPop(StripEscape(StackBefore(i)))} :
                      IF StackLast(under) = "ItemName"
                      THEN calls[i].stack = under
                      ELSE /\ StackLast(under) = "EscapeSequence"
                           /\ calls[i].stack = StackPop(under)
                           /\ StackLast(calls[i].stack) \in {"Block", "Params"}

\* the parameter list of an escape in a Block is closed and text follows
C19_Witness ==
    \E i \in 1..NCalls :
        /\ i < NCalls
        /\ Kind(i) = "ParamsEnd"
        /\ StackLast(calls[i].stack) = "Block"
        /\ Kind(i + 1) = "Text"

(***************************************************************************)
(* C20: a call that begins with EscapeSequence on top of the stack and a    *)
(* byte left to read returns ParamsStart with Params pushed when that byte  *)
(* is an opening parenthesis; for any other byte it returns what a call     *)
(* from the same place with EscapeSequence popped returns, and leaves the   *)
(* engine as that call leaves it: the byte is dispatched once, in the       *)
(* restored context.                                                        *)
(***************************************************************************)
\* the byte the next call of engine e dispatches first (NoByte: none is left)
NextByteOf(e) ==
    IF e.processed < Len(e.storage) THEN e.storage[e.processed + 1]
    ELSE IF e.rest # <<>> THEN e.rest[1]
    ELSE NoByte

C20_EscapeFollower ==
    [][(StackLast(context_stack) = "EscapeSequence" /\ NextByteOf(Engine) # NoByte) =>
          IF NextByteOf(Engine) = LPAREN
          THEN /\ calls'[Len(calls')].res = Tok("ParamsStart", <<>>)
               /\ context_stack' = StackPush(context_stack, "Params")
          ELSE \E r \in {parse_next_inner([Engine EXCEPT !.stack = StackPop(@)])} :
                  /\ calls'[Len(calls')].res = r.res
                  /\ context_stack' = r.e.stack
                  /\ storage' = r.e.storage
                  /\ processed' = r.e.processed
                  /\ cur_line' = r.e.cur_line
                  /\ reader'.rest = r.e.rest]_vars

\* the closing parenthesis after an escape pair closed the parameter list the
\* pair stood in, and after another pair a parameter list was opened
C20_Witness ==
    /\ \E i \in 1..NCalls :
           /\ StackLast(StackBefore(i)) = "EscapeSequence"
           /\ Kind(i) = "ParamsEnd"
           /\ ConsumedBy(i)[1] = RPAREN
    /\ \E i \in 1..NCalls :
           /\ StackLast(StackBefore(i)) = "EscapeSequence"
           /\ Kind(i) = "ParamsStart"

(***************************************************************************)
(* C21: where a call starts the identifier scan (at the first visible byte  *)
(* when that is an identifier byte at TopLevel or in a Container, right     *)
(* after the sigil when the first visible byte of the line is the sigil in  *)
(* a Block), it returns ItemName with the maximal run of identifier bytes   *)
(* from there and pushes ItemName; a terminating whitespace byte is         *)
(* consumed, any other terminating byte is left and is the first byte the   *)
(* next call consumes; when the source ends before a terminating byte the   *)
(* call fails with UnexpectedEof and pushes nothing.                        *)
(***************************************************************************)
\* first position at or after i whose byte is not whitespace other than newline
RECURSIVE SkipBlanks(_, _)
SkipBlanks(d, i) ==
    IF i <= Len(d) /\ is_ascii_whitespace(d[i]) /\ d[i] # NL
    THEN SkipBlanks(d, i + 1) ELSE i

\* where the identifier scan of call i starts (0: the call starts none)
ScanStart(i) ==
    IF AtItemPosition(i)
    THEN (IF GSkipWs(input, ConsumedBefore(i) + 1) <= Len(input)
             /\ is_ascii_ident_char(input[GSkipWs(input, ConsumedBefore(i) + 1)])
          THEN GSkipWs(input, ConsumedBefore(i) + 1) ELSE 0)
    ELSE IF /\ StackLast(StackBefore(i)) = "Block"
            /\ SkipBlanks(input, ConsumedBefore(i) + 1) <= Len(input)
            /\ input[SkipBlanks(input, ConsumedBefore(i) + 1)] = AT
    THEN SkipBlanks(input, ConsumedBefore(i) + 1) + 1
    ELSE 0

ScanResult(i, p, q) ==
    IF q > Len(input)
    THEN /\ Kind(i) = "UnexpectedEof"
         /\ calls[i].res.expected = "Any other symbol after item name"
         /\ calls[i].stack = StackBefore(i)
    ELSE /\ calls[i].res = Tok("ItemName", SubSeq(input, p, q - 1))
         /\ calls[i].stack = StackPush(StackBefore(i), "ItemName")
         /\ calls[i].consumed = IF is_ascii_whitespace(input[q]) THEN q ELSE q - 1
         /\ (~is_ascii_whitespace(input[q]) /\ i < NCalls) =>
                /\ ConsumedBy(i + 1) # <<>>
                /\ ConsumedBy(i + 1)[1] = input[q]

C21_IdentifierScan ==
    \A i \in 1..NCalls :
        ScanStart(i) # 0 => ScanResult(i, ScanStart(i), GNameEnd(input, ScanStart(i)))

\* an item was read, and the name of the next one runs into the end of the source
C21_Witness ==
    /\ NCalls >= 3
    /\ Kind(1) = "ItemName"
    /\ Kind(NCalls) = "UnexpectedEof"
    /\ calls[NCalls].res.expected = "Any other symbol after item name"

(***************************************************************************)
(* C22: a Text returned in Block context carries the bytes from the first   *)
(* non-whitespace byte at the cursor up to, and excluding, the next         *)
(* newline, closing brace or backslash, so that none of the three is in the *)
(* payload; a terminating newline is consumed, a terminating closing brace  *)
(* or backslash is left for the next call; a sigil or item syntax inside    *)
(* the run is part of the payload.                                          *)
(***************************************************************************)
TextInBlock(i, p, t) ==
    /\ p <= Len(input)
    /\ t <= Len(input)
    /\ calls[i].res.payload = SubSeq(input, p, t - 1)
    /\ \A k \in 1..Len(calls[i].res.payload) :
           calls[i].res.payload[k] \notin {NL, RBRACE, BSLASH}
    /\ calls[i].consumed = IF input[t] = NL THEN t ELSE t - 1
    /\ (input[t] # NL /\ i < NCalls) =>
           /\ ConsumedBy(i + 1) # <<>>
           /\ ConsumedBy(i + 1)[1] = input[t]
           /\ Kind(i + 1) \in {"BlockEnd", "EscapeSequence", "UnexpectedEof"}

C22_BlockText ==
    \A i \in 1..NCalls :
        (Kind(i) = "Text" /\ StackLast(calls[i].stack) = "Block") =>
            /\ StripEscape(StackBefore(i)) = calls[i].stack
            /\ TextInBlock(i, SkipBlanks(input, ConsumedBefore(i) + 1),
                           TextEnd(input, SkipBlanks(input, ConsumedBefore(i) + 1), RBRACE))

\* a run of text that holds a sigil and is ended by the closing brace
C22_Witness ==
    \E i \in 1..NCalls :
        /\ i < NCalls
        /\ Kind(i) = "Text"
        /\ StackLast(calls[i].stack) = "Block"
        /\ \E k \in 1..Len(calls[i].res.payload) : calls[i].res.payload[k] = AT
        /\ Kind(i + 1) = "BlockEnd"

(***************************************************************************)
(* C23: the call that returns BlockStart, ContainerStart or ParamsStart     *)
(* moves past the opener and past all the whitespace after it, newlines and *)
(* blank lines included, so that the next call begins at the first byte     *)
(* after the opener that is not whitespace; BlockStart is never followed    *)
(* immediately by EmptyLine.                                                *)
(***************************************************************************)
StartKinds == {"BlockStart", "ContainerStart", "ParamsStart"}

\* the opener of each start token
OpenerOf(k) ==
    CASE k = "BlockStart" -> LBRACE
      [] k = "ContainerStart" -> LBRACK
      [] k = "ParamsStart" -> LPAREN

\* where the opener read by call i is: at the cursor after an escape pair,
\* after the whitespace that follows the name otherwise
OpenerAt(i) ==
    IF StackLast(StackBefore(i)) = "EscapeSequence" THEN ConsumedBefore(i) + 1
    ELSE GSkipWs(input, ConsumedBefore(i) + 1)

OpenerSkipsWhitespace(i, p) ==
    /\ p <= Len(input)
    /\ input[p] = OpenerOf(Kind(i))
    /\ calls[i].consumed = GSkipWs(input, p + 1) - 1
    /\ i < NCalls =>
           /\ ConsumedBy(i + 1) # <<>> => ~is_ascii_whitespace(ConsumedBy(i + 1)[1])
           /\ Kind(i) = "BlockStart" => Kind(i + 1) # "EmptyLine"

C23_OpenerSkipsWhitespace ==
    \A i \in 1..NCalls :
        Kind(i) \in StartKinds => OpenerSkipsWhitespace(i, OpenerAt(i))

\* a block opened before a blank line, and the text after it read
C23_Witness ==
    \E i \in 1..NCalls :
        /\ i < NCalls
        /\ Kind(i) = "BlockStart"
        /\ Cardinality({k \in 1..Len(ConsumedBy(i)) : ConsumedBy(i)[k] = NL}) >= 2
        /\ Kind(i + 1) = "Text"

(***************************************************************************)
(* C24: while no call has failed, the stack holds as many Block entries as  *)
(* BlockStart tokens were returned and not yet matched by a BlockEnd, and   *)
(* likewise Container entries for ContainerStart/ContainerEnd and Params    *)
(* entries for ParamsStart/ParamsEnd; so End is returned only when every    *)
(* start has been matched, and an end token only when a start of its kind   *)
(* was open.                                                                *)
(***************************************************************************)
\* the number of entries ctx on the stack
Entries(stack, ctx) == Cardinality({k \in 1..Len(stack) : stack[k] = ctx})

\* the start tokens of a kind returned and not yet matched by its end token
Open(start, end) == CountKind(start) - CountKind(end)

\* the stack holds blocks Block entries, containers Container entries and
\* params Params entries
Mirrors(blocks, containers, params) ==
    /\ Entries(context_stack, "Block") = blocks
    /\ Entries(context_stack, "Container") = containers
    /\ Entries(context_stack, "Params") = params
    /\ (NCalls > 0 /\ Kind(NCalls) = "End") =>
           blocks = 0 /\ containers = 0 /\ params = 0
    /\ blocks >= 0 /\ containers >= 0 /\ params >= 0

C24_StackMirrorsNesting ==
    ~Failed =>
        Mirrors(Open("BlockStart", "BlockEnd"), Open("ContainerStart", "ContainerEnd"),
                Open("ParamsStart", "ParamsEnd"))

\* a container and a block open after a parameter list was opened and closed
C24_Witness ==
    /\ ~Failed
    /\ Entries(context_stack, "Container") = 1
    /\ Entries(context_stack, "Block") = 1
    /\ CountKind("ParamsStart") = 1
    /\ CountKind("ParamsEnd") = 1

(***************************************************************************)
(* C25: the context stack is well-shaped in every reachable state: TopLevel *)
(* is never an entry; a Params entry lies directly above an ItemName or an  *)
(* EscapeSequence entry; an EscapeSequence entry lies directly above a      *)
(* Block or a Params entry; an ItemName entry is the top or lies directly   *)
(* beneath a Params entry.  So every pop finds an entry to remove: the call *)
(* that returns an end token or ItemEnd leaves the stack shorter by one, or *)
(* by two when ParamsEnd removes Params and the EscapeSequence under it.    *)
(***************************************************************************)
WellShaped(stack) ==
    \A k \in 1..Len(stack) :
        /\ stack[k] # "TopLevel"
        /\ stack[k] = "Params" =>
               k > 1 /\ stack[k - 1] \in {"ItemName", "EscapeSequence"}
        /\ stack[k] = "EscapeSequence" =>
               k > 1 /\ stack[k - 1] \in {"Block", "Params"}
        /\ stack[k] = "ItemName" =>
               k = Len(stack) \/ stack[k + 1] = "Params"

\* what the pops of call i removed from the stack inner it met
PopsRemove(i, inner) ==
    /\ Kind(i) \in {"BlockEnd", "ContainerEnd", "ItemEnd"} =>
           /\ inner # <<>>
           /\ calls[i].stack = SubSeq(inner, 1, Len(inner) - 1)
    /\ Kind(i) = "ParamsEnd" =>
           /\ Len(inner) >= 2
           /\ inner[Len(inner)] = "Params"
           /\ IF inner[Len(inner) - 1] = "ItemName"
              THEN calls[i].stack = SubSeq(inner, 1, Len(inner) - 1)
              ELSE /\ inner[Len(inner) - 1] = "EscapeSequence"
                   /\ calls[i].stack = SubSeq(inner, 1, Len(inner) - 2)

C25_StackWellShaped ==
    /\ WellShaped(context_stack)
    /\ \A i \in 1..NCalls : PopsRemove(i, StripEscape(StackBefore(i)))

\* the parameter list of an escape, closed right after an escape pair in it
C25_Witness ==
    \E i \in 1..NCalls :
        /\ Kind(i) = "ParamsEnd"
        /\ StackBefore(i) = <<"Block", "EscapeSequence", "Params", "EscapeSequence">>
        /\ calls[i].stack = <<"Block">>

(***************************************************************************)
(* C26: every Text returned, in Block context and in Params context alike,  *)
(* has a payload of at least one byte.                                      *)
(***************************************************************************)
C26_TextNonEmpty ==
    \A i \in 1..NCalls :
        Kind(i) = "Text" => calls[i].res.payload # <<>>

(***************************************************************************)
(* C27: every ItemName returned carries a name of at least one byte, all of *)
(* them identifier bytes (no whitespace, no brace, parenthesis or bracket,  *)
(* no semicolon); a name read after the sigil in a Block begins at the byte *)
(* after the sigil.                                                         *)
(***************************************************************************)
NameOfIdentBytes(i) ==
    /\ calls[i].res.payload # <<>>
    /\ \A k \in 1..Len(calls[i].res.payload) :
           /\ is_ascii_ident_char(calls[i].res.payload[k])
           /\ ~is_ascii_whitespace(calls[i].res.payload[k])
           /\ ~is_ascii_context_char(calls[i].res.payload[k])
           /\ calls[i].res.payload[k] # SEMI
    /\ \E p \in (ConsumedBefore(i) + 1)..Len(input) :
           /\ calls[i].res.payload = SubSeq(input, p, p + Len(calls[i].res.payload) - 1)
           /\ StackLast(StripEscape(StackBefore(i))) = "Block" =>
                  /\ p - 1 > ConsumedBefore(i)
                  /\ input[p - 1] = AT
                  /\ \A j \in (ConsumedBefore(i) + 1)..(p - 2) : is_ascii_whitespace(input[j])

C27_ItemNameNonEmpty ==
    \A i \in 1..NCalls :
        Kind(i) = "ItemName" => NameOfIdentBytes(i)

(***************************************************************************)
(* C28: End is absorbing: once a call has returned End, every later call    *)
(* returns End, and after End and after each later call the context stack   *)
(* is empty, the buffer storage is empty and nothing of the source is left. *)
(***************************************************************************)
C28_EndIsAbsorbing ==
    \A j \in 1..NCalls :
        (Kind(j) = "End" \/ (j > 1 /\ Kind(j - 1) = "End")) =>
            /\ Kind(j) = "End"
            /\ calls[j].stack = StackNew
            /\ calls[j].empty
            /\ calls[j].consumed = Len(input)

\* End returned three times after the tokens of an item
C28_Witness ==
    /\ NCalls >= 5
    /\ Kind(1) = "ItemName"
    /\ CountKind("End") = 3
    /\ context_stack = StackNew
    /\ storage_empty(Engine)

(***************************************************************************)
(* C29: the call after one that returned ItemName returns BlockStart,       *)
(* ContainerStart, ParamsStart, ItemEnd or an error; and ItemEnd is         *)
(* returned only by the call after one that returned ItemName or ParamsEnd. *)
(***************************************************************************)
C29_TokenOrdering ==
    \A i \in 1..NCalls :
        /\ (i < NCalls /\ Kind(i) = "ItemName") =>
               Kind(i + 1) \in StartKinds \cup {"ItemEnd"} \cup ErrorKinds
        /\ Kind(i) = "ItemEnd" =>
               i > 1 /\ Kind(i - 1) \in {"ItemName", "ParamsEnd"}

\* a name followed by ParamsStart, and ItemEnd returned after its ParamsEnd
C29_Witness ==
    \E i, j \in 2..NCalls :
        /\ i < j
        /\ Kind(i) = "ParamsStart" /\ Kind(i - 1) = "ItemName"
        /\ Kind(j) = "ItemEnd" /\ Kind(j - 1) = "ParamsEnd"

(***************************************************************************)
(* C30: on a finite document whose reads do not fail every call returns:    *)
(* the loop of a call made in any state the caller may call in ends with a  *)
(* token or an error; a call that returns a token other than End moves the  *)
(* cursor past at least one byte no earlier call moved past; so End or an   *)
(* error is returned by one of the first Len(input) + 1 calls.              *)
(***************************************************************************)
\* call i returned a token other than End
VisibleToken(i) == Kind(i) \notin ErrorKinds \cup {"End"}

C30_CallsConsume ==
    /\ ~Failed =>
           \E r \in {parse_next_inner(Engine)} :
               r.done /\ r.res.kind \in TokenKinds \cup ErrorKinds
    /\ \A i \in 1..NCalls :
           VisibleToken(i) => calls[i].consumed > ConsumedBefore(i)
    /\ Cardinality({i \in 1..NCalls : VisibleToken(i)}) <= Len(input)
    /\ NCalls >= Len(input) + 1 =>
           \E j \in 1..(Len(input) + 1) : ~VisibleToken(j)

\* a document of which every call but the last consumed one byte
C30_Witness ==
    /\ Len(input) >= 3
    /\ NCalls = Len(input) + 1
    /\ \A i \in 1..Len(input) : VisibleToken(i) /\ calls[i].consumed = i
    /\ Kind(NCalls) = "End"

(***************************************************************************)
(* C31: for a document of N lines read from empty storage, the line number  *)
(* returned with a token or an error, up to and including the first End or  *)
(* the first error, is at most N + 1, and it is N + 1 only when the result  *)
(* is End or UnexpectedEof.                                                 *)
(***************************************************************************)
\* number of lines of the document (the last may lack its newline)
NLines == IF input = <<>> THEN 0 ELSE LineOf(Len(input))

C31_LineAtMostLinesPlusOne ==
    \A i \in 1..NCalls :
        (\A j \in 1..(i - 1) : VisibleToken(j)) =>
            /\ calls[i].line <= NLines + 1
            /\ calls[i].line = NLines + 1 => Kind(i) \in {"End", "UnexpectedEof"}

(***************************************************************************)
(* The operations of Buf on their own: a buffer made by with_storage(v)     *)
(* beside a reader over a short document, and the operations applied in any *)
(* order.  calls holds one record, of the operation applied last: its name, *)
(* its arguments, the offset and the storage it met, and what it returned.  *)
(***************************************************************************)
OpBytes == {LetterA, RBRACE, SP, NL}

RECURSIVE OpStrings(_)
OpStrings(n) ==
    IF n = 0 THEN {<<>>}
    ELSE LET shorter == OpStrings(n - 1)
         IN  shorter \cup {Append(s, b) : s \in {t \in shorter : Len(t) = n - 1}, b \in OpBytes}

\* the closures the engine hands to take_until_rewind: those of try_read_text
\* for a Block and for Params, and those of read_item_name
Searchers ==
    { [hits |-> {NL, RBRACE, BSLASH}, given_back |-> {RBRACE, BSLASH}],
      [hits |-> {NL, RPAREN, BSLASH}, given_back |-> {RPAREN, BSLASH}],
      [hits |-> NameSearcherHits, given_back |-> NameGivenBack] }

NoOut == [some |-> FALSE, slice |-> <<>>, byte |-> NoByte]

Did(op, n, f, before, out) ==
    <<[op |-> op, n |-> n, hits |-> f.hits, given_back |-> f.given_back,
       was |-> before.processed, storage |-> before.storage, out |-> out]>>

NoSearcher == [hits |-> {}, given_back |-> {}]

InitOps ==
    /\ input \in OpStrings(MaxLen)
    /\ \E v \in OpStrings(MaxBuf) :
           /\ storage = with_storage(v).storage
           /\ processed = with_storage(v).processed
    /\ context_stack = StackNew
    /\ cur_line = 0
    /\ reader = [rest |-> input, failIn |-> NoFail, failed |-> FALSE]
    /\ calls = <<>>

\* the buffer and the reader become those of e
Becomes(e, log) ==
    /\ storage' = e.storage
    /\ processed' = e.processed
    /\ cur_line' = e.cur_line
    /\ reader' = [rest |-> e.rest, failIn |-> e.failIn, failed |-> e.failed]
    /\ calls' = log
    /\ UNCHANGED <<context_stack, input>>

CallFillWithLine ==
    /\ cur_line < MaxPulls
    /\ Becomes(fill_with_line(Engine).e,
               Did("fill_with_line", 0, NoSearcher, Engine, NoOut))

CallNextByte ==
    \E nb \in {next_byte(Engine)} :
        Becomes(nb.e, Did("next_byte", 0, NoSearcher, Engine,
                          [some |-> nb.b # NoByte, slice |-> <<>>, byte |-> nb.b]))

CallRewind ==
    \E n \in 0..MaxRewind :
        Becomes(rewind(Engine, n), Did("rewind", n, NoSearcher, Engine, NoOut))

CallSearchForward ==
    /\ cur_line < MaxPulls
    /\ \E s \in {search_forward(Engine)} :
           Becomes(s.e, Did("search_forward", 0, NoSearcher, Engine,
                            [some |-> s.found, slice |-> <<>>, byte |-> NoByte]))

CallTakeUntilRewind ==
    \E f \in Searchers :
        \E t \in {take_until_rewind(Engine, f.hits, f.given_back)} :
            Becomes(t.e, Did("take_until_rewind", 0, f, Engine,
                             [some |-> t.some, slice |-> t.slice, byte |-> t.byte]))

NextOps ==
    \/ CallFillWithLine
    \/ CallNextByte
    \/ CallRewind
    \/ CallSearchForward
    \/ CallTakeUntilRewind

SpecOps == InitOps /\ [][NextOps]_vars

(***************************************************************************)
(* C32: after any sequence of buffer operations the processed offset is at  *)
(* least 0 and at most the length of the storage; rewind(n) leaves the      *)
(* offset at max(0, offset - n) and the storage as it was; next_byte with   *)
(* the offset at the length of the storage returns none and leaves the      *)
(* offset unchanged.                                                        *)
(***************************************************************************)
\* the state after the operation recorded in l
AfterOp(l) ==
    /\ l.op = "rewind" =>
           /\ processed = (IF l.was - l.n > 0 THEN l.was - l.n ELSE 0)
           /\ storage = l.storage
    /\ (l.op = "next_byte" /\ l.was = Len(l.storage)) =>
           /\ ~l.out.some
           /\ processed = l.was
           /\ storage = l.storage
    /\ (l.op = "next_byte" /\ l.was < Len(l.storage)) =>
           /\ l.out.byte = l.storage[l.was + 1]
           /\ processed = l.was + 1

C32_OffsetInStorage ==
    /\ 0 <= processed
    /\ processed <= Len(storage)
    /\ \A k \in 1..Len(calls) : AfterOp(calls[k])

\* a rewind by more than the offset, on a line pulled from the reader
C32_Witness ==
    /\ cur_line >= 1
    /\ calls # <<>>
    /\ calls[1].op = "rewind"
    /\ calls[1].was > 0
    /\ calls[1].n > calls[1].was
    /\ processed = 0

(***************************************************************************)
(* C33: take_until_rewind with the cursor at offset p: when the searcher    *)
(* finds a terminator at position pos of the bytes from p on, it returns    *)
(* the bytes [p, p + pos) with the terminator, and the cursor is left at    *)
(* p + pos + 1 less what the rewind closure gives back for the terminator;  *)
(* when the searcher finds nothing, it returns none and the cursor is left  *)
(* at the length of the storage, whatever p is.                             *)
(***************************************************************************)
\* what take_until_rewind recorded in l is to return and to leave, the searcher
\* having answered pos
TakenUntil(l, pos) ==
    IF pos # NoPos
    THEN /\ l.out.some
         /\ l.out.slice = SubSeq(l.storage, l.was + 1, l.was + pos)
         /\ l.out.byte = l.storage[l.was + pos + 1]
         /\ processed = l.was + pos + 1 - (IF l.out.byte \in l.given_back THEN 1 ELSE 0)
    ELSE /\ ~l.out.some
         /\ processed = Len(l.storage)

C33_TakeUntilRewind ==
    \A k \in 1..Len(calls) :
        calls[k].op = "take_until_rewind" =>
            TakenUntil(calls[k],
                       FindFirst(SubSeq(calls[k].storage, calls[k].was + 1,
                                        Len(calls[k].storage)),
                                 calls[k].hits))

(***************************************************************************)
(* The operations of ContextStack on their own, applied in any order to the *)
(* stack of ContextStack::new().  calls holds the records of the last two   *)
(* operations: the name, the context pushed, the stack met, what was        *)
(* returned.                                                                *)
(***************************************************************************)
InitStack ==
    /\ input = <<>>
    /\ Starts(new(input))

\* the record of an operation, kept with that of the one before it
Kept(op, c, out) ==
    (IF calls = <<>> THEN <<>> ELSE <<calls[Len(calls)]>>)
        \o <<[op |-> op, c |-> c, before |-> context_stack, out |-> out]>>

CallPush ==
    /\ Len(context_stack) < MaxDepth
    /\ \E c \in Context :
           /\ context_stack' = StackPush(context_stack, c)
           /\ calls' = Kept("push", c, "None")
    /\ UNCHANGED <<storage, processed, cur_line, reader, input>>

CallPop ==
    /\ context_stack' = StackPop(context_stack)
    /\ calls' = Kept("pop", "None", StackPopped(context_stack))
    /\ UNCHANGED <<storage, processed, cur_line, reader, input>>

CallLast ==
    /\ calls' = Kept("last", "None", StackLast(context_stack))
    /\ UNCHANGED <<storage, processed, context_stack, cur_line, reader, input>>

NextStack == CallPush \/ CallPop \/ CallLast

SpecStack == InitStack /\ [][NextStack]_vars

(***************************************************************************)
(* C34: last() leaves the stack as it was and returns the context pushed    *)
(* most recently and not yet popped, or TopLevel when the stack is empty;   *)
(* pop() on an empty stack returns TopLevel and leaves the stack empty;     *)
(* pop() directly after push(c) returns c and leaves the stack that was     *)
(* there before the push.                                                   *)
(***************************************************************************)
\* the stack the operation recorded at k left
StackAfter(k) == IF k = Len(calls) THEN context_stack ELSE calls[k + 1].before

StackOpEffect(k, l) ==
    /\ l.op = "last" =>
           /\ StackAfter(k) = l.before
           /\ l.before = <<>> => l.out = "TopLevel"
           /\ l.before # <<>> => l.out = l.before[Len(l.before)]
           /\ (k > 1 /\ calls[k - 1].op = "push") => l.out = calls[k - 1].c
    /\ (l.op = "pop" /\ l.before = <<>>) =>
           /\ l.out = "TopLevel"
           /\ StackAfter(k) = <<>>
    /\ (l.op = "pop" /\ k > 1 /\ calls[k - 1].op = "push") =>
           /\ l.out = calls[k - 1].c
           /\ StackAfter(k) = calls[k - 1].before

C34_StackOperations ==
    \A k \in 1..Len(calls) : StackOpEffect(k, calls[k])

\* a context pushed on a stack of two and popped again
C34_Witness ==
    /\ Len(calls) = 2
    /\ calls[1].op = "push"
    /\ Len(calls[1].before) = 2
    /\ calls[2].op = "pop"
    /\ calls[2].out = calls[1].c
    /\ context_stack = calls[1].before

====
